---- MODULE Spec2Model ----
(***************************************************************************)
(* A model of fs.onedrivefs (src/fs/onedrivefs/onedrivefs.py): the        *)
(* OneDriveFS adapter and its write stream TempFileWrapper, together with  *)
(* the parts of their environment the code talks to: the remote item tree  *)
(* behind the OneDrive client, the process's file-descriptor table and the *)
(* local temporary files.                                                  *)
(*                                                                         *)
(* Every filesystem call is one action: the adapter performs no locking    *)
(* and leaves serialising the calls to its caller, so calls of different   *)
(* streams interleave call by call.  The variable result describes the     *)
(* call the last step made: its arguments, what the path resolved to       *)
(* before the call, the requests it sent to the remote service, and        *)
(* whether it returned or which exception it raised.                       *)
(*                                                                         *)
(* The class statement of TempFileWrapper names IOBase, which the module   *)
(* imports only as RawIOBase; the model reads the base class as io.IOBase. *)
(***************************************************************************)
EXTENDS Integers, Sequences, FiniteSets, TLC

\* ---------------------------------------------------------------- bounds
MaxStreams == 2     \* write streams ever created
MaxBytes == 2       \* write() calls that land in a temp file, over all streams
MaxFields == 2      \* fields in one setinfo update request
MaxPages == 3       \* pages the server splits one listing into

\* ---------------------------------------------------------- the universe
Root == "/"
Paths == {"/d", "/d/f", "/g"}
AllPaths == Paths \cup {Root}
StreamPaths == {"/d/f"}
Fields == {<<"basic", "name">>, <<"basic", "is_dir">>, <<"details", "accessed">>,
           <<"details", "created">>, <<"details", "modified">>,
           <<"details", "size">>, <<"details", "type">>, <<"access", "user">>}
OldContent == <<3>>
Epochs == {1}
StreamIds == 1 .. MaxStreams
NoStream == 0

dirname(p) == IF p = "/d/f" THEN "/d" ELSE Root

basename(p) == CASE p = "/d" -> "d" [] p = "/d/f" -> "f" [] p = "/g" -> "g" [] OTHER -> ""

\* ------------------------------------------------------------- fs.time
\* a datetime is its seconds since the epoch and its tzinfo
epoch_to_datetime(t) == [secs |-> t, tzinfo |-> "utc"]

replace_tzinfo_None(d) == [d EXCEPT !.tzinfo = "none"]

datetime_to_epoch(d) == d.secs

ServerTime == [secs |-> 0, tzinfo |-> "none"]

\* ------------------------------------------------------------- fs.mode
\* a mode is the set of characters of the mode string
Modes == {{"r"}, {"w"}, {"a"}, {"x"}, {"a", "+"}}

reading(mode) == "r" \in mode \/ "+" \in mode

writing(mode) == "w" \in mode \/ "a" \in mode \/ "+" \in mode \/ "x" \in mode

appending(mode) == "a" \in mode

exclusive(mode) == "x" \in mode

\* --------------------------------------------------------------- state
VARIABLES
    remote,     \* the remote item tree: path -> item
    streams,    \* the TempFileWrapper objects created so far
    fdtab,      \* the descriptor table: descriptor -> temp file it is open on, 0 if free
    tmp,        \* the local temp files, by name
    solo,       \* the stream whose calls are the only calls made since it was opened
    result      \* the call made by the last step

vars == <<remote, streams, fdtab, tmp, solo, result>>

AbsentItem == [kind |-> "absent", content |-> <<>>, created |-> ServerTime, modified |-> ServerTime]

FileItem(content) == [kind |-> "file", content |-> content, created |-> ServerTime, modified |-> ServerTime]

FolderItem == [kind |-> "folder", content |-> <<>>, created |-> ServerTime, modified |-> ServerTime]

Kind(p) == IF p = Root THEN "folder" ELSE remote[p].kind

\* a tree is well formed when every item's parent is a folder
WellFormed(tree) ==
    \A p \in Paths : tree[p].kind # "absent" /\ dirname(p) # Root => tree[dirname(p)].kind = "folder"

NoTempFile == [present |-> FALSE, data |-> <<>>]

NewStream == [opened |-> FALSE, uploadPath |-> Root, fileHandle |-> 0, localPath |-> 0,
              closed |-> FALSE, written |-> <<>>, closeCalled |-> FALSE,
              uploadCalls |-> 0, replaced |-> FALSE, peers |-> {}]

NoCall == [op |-> "none", path |-> Root, mode |-> {}, sid |-> NoStream, pre |-> "absent",
           status |-> "ok", data |-> <<>>, reqs |-> {}, arg |-> <<>>, fetches |-> 0]

Call(op, path, status, reqs) ==
    [NoCall EXCEPT !.op = op, !.path = path, !.pre = Kind(path), !.status = status, !.reqs = reqs]

\* ------------------------------------------------- FS.exists, FS.isfile
\* both go through getinfo and turn ResourceNotFound into False
exists(p) == Kind(p) # "absent"

isfile(p) == Kind(p) = "file"

\* ---------------------------------------------------------- tempfile, os
\* mkstemp opens a new file on the lowest free descriptor
LowestFree == CHOOSE fd \in StreamIds : fdtab[fd] = 0 /\ \A g \in StreamIds : g < fd => fdtab[g] # 0

NextSlot == CHOOSE s \in StreamIds : ~streams[s].opened /\ \A t \in StreamIds : t < s => streams[t].opened

\* the streams that hold an open descriptor and have not been asked to close
Live == {s \in StreamIds : streams[s].opened /\ ~streams[s].closeCalled}

\* a faulty variant: every stream gets the same temp file name
TempFileWrapper_init_fixed_name(path) ==
    [NewStream EXCEPT !.opened = TRUE, !.uploadPath = path, !.fileHandle = LowestFree,
                      !.localPath = 1, !.peers = Live]

TempFileWrapper_init(path) ==
    [NewStream EXCEPT !.opened = TRUE, !.uploadPath = path, !.fileHandle = LowestFree,
                      !.localPath = NextSlot, !.peers = Live]

\* ------------------------------------------------------ OneDriveFS.openbin
OpenBin(path, mode) ==
    LET call == [Call("openbin", path, "ok", {"get"}) EXCEPT !.mode = mode] IN
    IF exclusive(mode) /\ exists(path)
    THEN \* FileExists is not a name the module defines
         /\ result' = [call EXCEPT !.status = "NameError"]
         /\ solo' = NoStream
         /\ UNCHANGED <<remote, streams, fdtab, tmp>>
    ELSE IF exists(path) /\ ~isfile(path)
    THEN /\ result' = [call EXCEPT !.status = "FileExpected"]
         /\ solo' = NoStream
         /\ UNCHANGED <<remote, streams, fdtab, tmp>>
    ELSE IF reading(mode)
    THEN /\ result' = IF exists(path)
                      THEN [call EXCEPT !.data = remote[path].content, !.reqs = {"get", "download"}]
                      ELSE [call EXCEPT !.status = "ResourceNotFound"]
         /\ solo' = NoStream
         /\ UNCHANGED <<remote, streams, fdtab, tmp>>
    ELSE IF writing(mode)
    THEN LET new == TempFileWrapper_init(path) IN
         /\ \E s \in StreamIds : ~streams[s].opened
         /\ streams' = [streams EXCEPT ![NextSlot] = new]
         /\ fdtab' = [fdtab EXCEPT ![new.fileHandle] = new.localPath]
         /\ tmp' = [tmp EXCEPT ![new.localPath] = IF @.present THEN @ ELSE [present |-> TRUE, data |-> <<>>]]
         /\ result' = [call EXCEPT !.sid = NextSlot]
         /\ solo' = NextSlot
         /\ UNCHANGED remote
    ELSE \* the appending branch and the final branch raise the same error
         /\ result' = [call EXCEPT !.status = "ResourceReadOnly"]
         /\ solo' = NoStream
         /\ UNCHANGED <<remote, streams, fdtab, tmp>>

RECURSIVE SumWritten(_)
SumWritten(n) == IF n = 0 THEN 0 ELSE Len(streams[n].written) + SumWritten(n - 1)

TotalWritten == SumWritten(MaxStreams)

\* ------------------------------------------------- TempFileWrapper.write
\* a faulty variant: every write starts at the beginning of the file again
Write_from_start(s, b) ==
    LET fd == streams[s].fileHandle
        call == [Call("write", streams[s].uploadPath, "ok", {}) EXCEPT !.sid = s] IN
    /\ streams[s].opened
    /\ TotalWritten + Len(b) <= MaxBytes
    /\ IF fdtab[fd] = 0
       THEN /\ result' = [call EXCEPT !.status = "OSError"]
            /\ UNCHANGED <<streams, tmp>>
       ELSE /\ tmp' = [tmp EXCEPT ![fdtab[fd]].data = b \o SubSeq(@, Len(b) + 1, Len(@))]
            /\ streams' = [streams EXCEPT ![s].written = @ \o b]
            /\ result' = call
    /\ solo' = IF solo = s THEN s ELSE NoStream
    /\ UNCHANGED <<remote, fdtab>>

\* os.write on the descriptor: EBADF if it is free, else the bytes go to
\* whatever file the descriptor is open on
Write(s, b) ==
    LET fd == streams[s].fileHandle
        call == [Call("write", streams[s].uploadPath, "ok", {}) EXCEPT !.sid = s] IN
    /\ streams[s].opened
    /\ TotalWritten + Len(b) <= MaxBytes
    /\ IF fdtab[fd] = 0
       THEN /\ result' = [call EXCEPT !.status = "OSError"]
            /\ UNCHANGED <<streams, tmp>>
       ELSE /\ tmp' = [tmp EXCEPT ![fdtab[fd]].data = @ \o b]
            /\ streams' = [streams EXCEPT ![s].written = @ \o b]
            /\ result' = call
    /\ solo' = IF solo = s THEN s ELSE NoStream
    /\ UNCHANGED <<remote, fdtab>>

\* ---------------------------------------------------- the remote service
\* an upload creates or overwrites the file at the path; the service refuses
\* it when the parent is not a folder or the path names a folder
UploadAccepted(path) == Kind(dirname(path)) = "folder" /\ Kind(path) # "folder"

Uploaded(path, data) ==
    [remote EXCEPT ![path] = [kind |-> "file", content |-> data,
                              created |-> IF exists(path) THEN @.created ELSE ServerTime,
                              modified |-> ServerTime]]

\* deleting an item deletes what is below it
Deleted(path) ==
    [p \in Paths |-> IF p = path \/ dirname(p) = path THEN AbsentItem ELSE remote[p]]

\* ------------------------------------------------- TempFileWrapper.close
\* netfail: the service fails the upload request
Close(s, netfail) ==
    LET fd == streams[s].fileHandle
        path == streams[s].uploadPath
        file == streams[s].localPath
        call == [Call("close", path, "ok", {}) EXCEPT !.sid = s] IN
    /\ streams[s].opened
    /\ solo' = IF solo = s THEN s ELSE NoStream
    /\ IF fdtab[fd] = 0
       THEN \* os.close raises EBADF
            /\ result' = [call EXCEPT !.status = "OSError"]
            /\ streams' = [streams EXCEPT ![s].closeCalled = TRUE]
            /\ UNCHANGED <<remote, fdtab, tmp>>
       ELSE /\ fdtab' = [fdtab EXCEPT ![fd] = 0]
            /\ IF ~tmp[file].present
               THEN \* the upload cannot open the local file
                    /\ result' = [call EXCEPT !.status = "FileNotFoundError"]
                    /\ streams' = [streams EXCEPT ![s].closeCalled = TRUE, ![s].uploadCalls = @ + 1]
                    /\ UNCHANGED <<remote, tmp>>
               ELSE IF netfail \/ ~UploadAccepted(path)
               THEN /\ result' = [call EXCEPT !.status = "OneDriveError", !.reqs = {"upload"}]
                    /\ streams' = [streams EXCEPT ![s].closeCalled = TRUE, ![s].uploadCalls = @ + 1]
                    /\ UNCHANGED <<remote, tmp>>
               ELSE /\ remote' = Uploaded(path, tmp[file].data)
                    /\ tmp' = [tmp EXCEPT ![file] = NoTempFile]
                    /\ streams' = [streams EXCEPT ![s].closeCalled = TRUE, ![s].uploadCalls = @ + 1,
                                                   ![s].replaced = exists(path), ![s].closed = TRUE]
                    /\ result' = [call EXCEPT !.reqs = {"upload"}]

\* --------------------------------------------------- OneDriveFS._itemInfo
Item(p) == IF p = Root THEN FolderItem ELSE remote[p]

_itemInfo(p) ==
    [name |-> basename(p),
     is_dir |-> Item(p).kind = "folder",
     created |-> datetime_to_epoch(Item(p).created),
     modified |-> datetime_to_epoch(Item(p).modified),
     size |-> Len(Item(p).content),
     type |-> IF Item(p).kind = "folder" THEN 1 ELSE 0]

\* ----------------------------------------------------- OneDriveFS.getinfo
GetInfo(path) ==
    /\ result' = IF exists(path)
                 THEN [Call("getinfo", path, "ok", {"get"}) EXCEPT !.data = <<_itemInfo(path)>>]
                 ELSE Call("getinfo", path, "ResourceNotFound", {"get"})
    /\ solo' = NoStream
    /\ UNCHANGED <<remote, streams, fdtab, tmp>>

\* ----------------------------------------------------- OneDriveFS.setinfo
\* an update request is the sequence of its (namespace, name, value) entries
\* in the order the two loops visit them
EmptyUpdate == [setCreated |-> FALSE, created |-> ServerTime, setModified |-> FALSE, modified |-> ServerTime]

\* a faulty variant: details.size is skipped like details.accessed
StageField_ignores_size(itemUpdate, entry) ==
    LET namespace == entry[1]
        name == entry[2]
        value == entry[3] IN
    IF namespace = "basic"
    THEN [failed |-> TRUE, update |-> itemUpdate]
    ELSE IF namespace = "details"
    THEN IF name = "accessed" \/ name = "metadata_changed" \/ name = "size"
         THEN [failed |-> FALSE, update |-> itemUpdate]
         ELSE IF name = "created"
         THEN [failed |-> FALSE,
               update |-> [itemUpdate EXCEPT !.setCreated = TRUE,
                                             !.created = replace_tzinfo_None(epoch_to_datetime(value))]]
         ELSE IF name = "modified"
         THEN [failed |-> FALSE,
               update |-> [itemUpdate EXCEPT !.setModified = TRUE,
                                             !.modified = replace_tzinfo_None(epoch_to_datetime(value))]]
         ELSE [failed |-> TRUE, update |-> itemUpdate]
    ELSE [failed |-> FALSE, update |-> itemUpdate]

\* one turn of the inner loop: the item update after the entry, or the failed assertion
StageField(itemUpdate, entry) ==
    LET namespace == entry[1]
        name == entry[2]
        value == entry[3] IN
    IF namespace = "basic"
    THEN [failed |-> TRUE, update |-> itemUpdate]
    ELSE IF namespace = "details"
    THEN IF name = "accessed" \/ name = "metadata_changed"
         THEN [failed |-> FALSE, update |-> itemUpdate]
         ELSE IF name = "created"
         THEN [failed |-> FALSE,
               update |-> [itemUpdate EXCEPT !.setCreated = TRUE,
                                             !.created = replace_tzinfo_None(epoch_to_datetime(value))]]
         ELSE IF name = "modified"
         THEN [failed |-> FALSE,
               update |-> [itemUpdate EXCEPT !.setModified = TRUE,
                                             !.modified = replace_tzinfo_None(epoch_to_datetime(value))]]
         ELSE [failed |-> TRUE, update |-> itemUpdate]
    ELSE [failed |-> FALSE, update |-> itemUpdate]

RECURSIVE StageAll(_, _, _)
StageAll(info, i, itemUpdate) ==
    IF i > Len(info)
    THEN [failed |-> FALSE, update |-> itemUpdate]
    ELSE LET step == StageField(itemUpdate, info[i]) IN
         IF step.failed THEN step ELSE StageAll(info, i + 1, step.update)

\* the service changes the fields the update carries and no others
Updated(path, itemUpdate) ==
    [remote EXCEPT ![path].created = IF itemUpdate.setCreated THEN itemUpdate.created ELSE @,
                   ![path].modified = IF itemUpdate.setModified THEN itemUpdate.modified ELSE @]

SetInfo(path, info) ==
    LET call == [Call("setinfo", path, "ok", {"get"}) EXCEPT !.arg = info]
        staged == StageAll(info, 1, EmptyUpdate) IN
    /\ solo' = NoStream
    /\ UNCHANGED <<streams, fdtab, tmp>>
    /\ IF ~exists(path)
       THEN /\ result' = [call EXCEPT !.status = "ResourceNotFound"]
            /\ UNCHANGED remote
       ELSE IF staged.failed
       THEN /\ result' = [call EXCEPT !.status = "AssertionError"]
            /\ UNCHANGED remote
       ELSE /\ result' = [call EXCEPT !.reqs = {"get", "update"}]
            /\ remote' = Updated(path, staged.update)

\* -------------------------------------------- OneDriveFS.remove, removedir
\* a faulty variant: remove deletes whatever the path resolves to
Remove_unchecked(path) ==
    /\ solo' = NoStream
    /\ UNCHANGED <<streams, fdtab, tmp>>
    /\ IF ~exists(path)
       THEN /\ result' = Call("remove", path, "OneDriveError", {"get"})
            /\ UNCHANGED remote
       ELSE /\ result' = Call("remove", path, "ok", {"get", "delete"})
            /\ remote' = Deleted(path)

Remove(path) ==
    /\ solo' = NoStream
    /\ UNCHANGED <<streams, fdtab, tmp>>
    /\ IF ~exists(path)
       THEN \* get() raises and nothing catches it
            /\ result' = Call("remove", path, "OneDriveError", {"get"})
            /\ UNCHANGED remote
       ELSE IF Kind(path) = "folder"
       THEN /\ result' = Call("remove", path, "FileExpected", {"get"})
            /\ UNCHANGED remote
       ELSE /\ result' = Call("remove", path, "ok", {"get", "delete"})
            /\ remote' = Deleted(path)

RemoveDir(path) ==
    /\ solo' = NoStream
    /\ UNCHANGED <<streams, fdtab, tmp>>
    /\ IF ~exists(path)
       THEN /\ result' = Call("removedir", path, "OneDriveError", {"get"})
            /\ UNCHANGED remote
       ELSE IF Kind(path) # "folder"
       THEN /\ result' = Call("removedir", path, "DirectoryExpected", {"get"})
            /\ UNCHANGED remote
       ELSE /\ result' = Call("removedir", path, "ok", {"get", "delete"})
            /\ remote' = Deleted(path)

\* ----------------------------------------------------- OneDriveFS.scandir
Children(path) == {c \in Paths : dirname(c) = path /\ remote[c].kind # "absent"}

\* the service lists the children in an order of its own, split into pages
\* where it likes; a page may be empty
Orders(S) == {o \in [1 .. Cardinality(S) -> S] : \A i, j \in DOMAIN o : o[i] = o[j] => i = j}

Cuts(k, n) == {c \in [1 .. n - 1 -> 0 .. k] : \A i, j \in DOMAIN c : i <= j => c[i] <= c[j]}

PagesOf(order, cuts) ==
    LET n == Len(cuts) + 1
        from(i) == IF i = 1 THEN 1 ELSE cuts[i - 1] + 1
        to(i) == IF i = n THEN Len(order) ELSE cuts[i] IN
    [i \in 1 .. n |-> SubSeq(order, from(i), to(i))]

Pagings(path) ==
    {PagesOf(o, c) : o \in Orders(Children(path)),
                     c \in UNION {Cuts(Cardinality(Children(path)), n) : n \in 1 .. MaxPages}}

\* the response to the request for page i: its items, and the next-page link if it has one
PageResponse(pages, i) == [items |-> pages[i], _next_page_link |-> IF i < Len(pages) THEN i + 1 ELSE 0]

hasattr_next_page_link(children) == children._next_page_link # 0

Infos(items) == [i \in 1 .. Len(items) |-> _itemInfo(items[i])]

\* a faulty variant: an if where the while is, so that one more page at most is fetched
ScanLoop_once(pages, children, gathered, fetches) ==
    IF hasattr_next_page_link(children)
    THEN [data |-> gathered \o Infos(PageResponse(pages, children._next_page_link).items),
          fetches |-> fetches + 1]
    ELSE [data |-> gathered, fetches |-> fetches]

\* the while loop: chain the next page's infos behind the ones gathered so far
RECURSIVE ScanLoop(_, _, _, _)
ScanLoop(pages, children, gathered, fetches) ==
    IF hasattr_next_page_link(children)
    THEN LET next == PageResponse(pages, children._next_page_link) IN
         ScanLoop(pages, next, gathered \o Infos(next.items), fetches + 1)
    ELSE [data |-> gathered, fetches |-> fetches]

ScanDir(path, pages) ==
    LET call == [Call("scandir", path, "ok", {"get"}) EXCEPT !.arg = pages]
        first == PageResponse(pages, 1)
        scan == ScanLoop(pages, first, Infos(first.items), 1) IN
    /\ solo' = NoStream
    /\ UNCHANGED <<remote, streams, fdtab, tmp>>
    /\ result' = IF ~exists(path)
                 THEN [call EXCEPT !.status = "ResourceNotFound"]
                 ELSE IF Kind(path) # "folder"
                 THEN [call EXCEPT !.status = "DirectoryExpected"]
                 ELSE [call EXCEPT !.data = scan.data, !.fetches = scan.fetches,
                                   !.reqs = {"get", "children"}]

\* --------------------------------------------------------- specification
Trees == {tree \in [Paths -> {AbsentItem, FileItem(OldContent), FolderItem}] : WellFormed(tree)}

Init ==
    /\ remote \in {tree \in Trees : tree["/g"].kind = "absent"}
    /\ streams = [s \in StreamIds |-> NewStream]
    /\ fdtab = [fd \in StreamIds |-> 0]
    /\ tmp = [s \in StreamIds |-> NoTempFile]
    /\ solo = NoStream
    /\ result = NoCall

DoOpenBin == \E p \in StreamPaths, m \in Modes : OpenBin(p, m)

\* the caller's bytes: every write() call passes a byte that names the stream
\* and the position of the call, so that content tells whose it is and in
\* what order it was written
NextByte(s) == 10 * s + Len(streams[s].written) + 1

DoWrite == \E s \in StreamIds : Write(s, <<NextByte(s)>>)

DoClose == \E s \in StreamIds, netfail \in BOOLEAN : Close(s, netfail)

Next == DoOpenBin \/ DoWrite \/ DoClose

Spec == Init /\ [][Next]_vars

\* the calls that look at the tree and change it
InitTree ==
    /\ remote \in Trees
    /\ streams = [s \in StreamIds |-> NewStream]
    /\ fdtab = [fd \in StreamIds |-> 0]
    /\ tmp = [s \in StreamIds |-> NoTempFile]
    /\ solo = NoStream
    /\ result = NoCall

DoGetInfo == \E p \in Paths : GetInfo(p)

DoRemove == \E p \in Paths : Remove(p)

DoRemoveDir == \E p \in Paths : RemoveDir(p)

DoScanDir == \E p \in AllPaths : \E pages \in IF Kind(p) = "folder" THEN Pagings(p) ELSE {<<<<>>>>} : ScanDir(p, pages)

DoOpenRead == \E p \in Paths : OpenBin(p, {"r"})

NextTree == DoGetInfo \/ DoRemove \/ DoRemoveDir \/ DoScanDir \/ DoOpenRead

SpecTree == InitTree /\ [][NextTree]_vars

\* the metadata updates
Entries == {<<f[1], f[2], e>> : f \in Fields, e \in Epochs}

\* a nested mapping visits each namespace once, and each name of it once
Grouped(info) ==
    /\ \A i, j \in DOMAIN info : i # j => <<info[i][1], info[i][2]>> # <<info[j][1], info[j][2]>>
    /\ \A i, j, k \in DOMAIN info : i < j /\ j < k /\ info[i][1] = info[k][1] => info[j][1] = info[i][1]

UpdateRequests == {info \in UNION {[1 .. n -> Entries] : n \in 0 .. MaxFields} : Grouped(info)}

DoSetInfo == \E p \in Paths, info \in UpdateRequests : SetInfo(p, info)

NextInfo == DoSetInfo \/ DoGetInfo

\* one item, and paths that resolve to nothing
InitInfo ==
    /\ remote \in {tree \in Trees : tree["/d"].kind # "absent" /\ tree["/d/f"].kind = "absent" /\ tree["/g"].kind = "absent"}
    /\ streams = [s \in StreamIds |-> NewStream]
    /\ fdtab = [fd \in StreamIds |-> 0]
    /\ tmp = [s \in StreamIds |-> NoTempFile]
    /\ solo = NoStream
    /\ result = NoCall

SpecInfo == InitInfo /\ [][NextInfo]_vars

\* ------------------------------------------------------------------ claims

\* C1: a stream that is opened on P, written and closed with no other call
\* in between, the close returning normally, leaves at P exactly the bytes
\* passed to its write() calls in call order: reading P next yields them, and
\* nothing of what P held before.
RoundTrip ==
    [][(/\ result.op = "close" /\ result.status = "ok" /\ solo = result.sid
        /\ result'.op = "openbin" /\ result'.mode = {"r"}
        /\ result'.path = streams[result.sid].uploadPath)
       => (result'.status = "ok" /\ result'.data = streams[result.sid].written)]_vars

\* a read that returns the two bytes of a closed stream which replaced an existing file
RoundTripOverwrote ==
    /\ result.op = "openbin" /\ result.mode = {"r"} /\ result.status = "ok"
    /\ \E s \in StreamIds : /\ streams[s].closed /\ streams[s].replaced
                            /\ Len(streams[s].written) = 2
                            /\ result.data = streams[s].written

\* C2: once close() has returned, normally or with an error, the stream's
\* temp file no longer exists.
TempFileGoneAfterClose ==
    result.op = "close" => ~tmp[streams[result.sid].localPath].present

\* C3: openbin in append mode on an absent path or an existing file fails
\* with ResourceReadOnly and returns no stream.
AppendIsReadOnly ==
    (result.op = "openbin" /\ appending(result.mode) /\ result.pre \in {"absent", "file"})
        => (result.status = "ResourceReadOnly" /\ result.sid = NoStream)

\* C4: getinfo, setinfo, scandir, remove, removedir and openbin for reading
\* fail with ResourceNotFound on a path that resolves to no item, and leave
\* the remote tree as it was.
AbsentIsResourceNotFound ==
    [][(/\ result'.pre = "absent"
        /\ \/ result'.op \in {"getinfo", "setinfo", "scandir", "remove", "removedir"}
           \/ result'.op = "openbin" /\ result'.mode = {"r"})
       => (result'.status = "ResourceNotFound" /\ remote' = remote)]_vars

\* C5: remove on a folder fails with FileExpected and removedir on a file
\* fails with DirectoryExpected; neither sends a delete request and the
\* remote tree is the same after the call as before it.
KindMismatchDeletesNothing ==
    [][/\ (result'.op = "remove" /\ result'.pre = "folder")
            => (result'.status = "FileExpected" /\ "delete" \notin result'.reqs /\ remote' = remote)
       /\ (result'.op = "removedir" /\ result'.pre = "file")
            => (result'.status = "DirectoryExpected" /\ "delete" \notin result'.reqs /\ remote' = remote)]_vars

\* remove was called on a folder that has a child
RemoveOnFolder ==
    /\ result.op = "remove" /\ result.pre = "folder" /\ result.status = "FileExpected"
    /\ Children(result.path) # {}

\* C6: setinfo on an existing path with a request that carries basic.name,
\* basic.is_dir, details.size or details.type fails, sends no update request
\* and leaves the item's timestamps alone, whatever else the request carries
\* and in whatever order.
Forbidden(entry) ==
    <<entry[1], entry[2]>> \in {<<"basic", "name">>, <<"basic", "is_dir">>, <<"details", "size">>, <<"details", "type">>}

ForbiddenFieldsNeverMutate ==
    [][(/\ result'.op = "setinfo" /\ result'.pre # "absent"
        /\ \E i \in DOMAIN result'.arg : Forbidden(result'.arg[i]))
       => (/\ result'.status = "AssertionError"
           /\ "update" \notin result'.reqs
           /\ remote' = remote)]_vars

\* a request that names a permitted timestamp before a forbidden field has failed
PermittedThenForbidden ==
    /\ result.op = "setinfo" /\ result.pre # "absent" /\ result.status = "AssertionError"
    /\ Len(result.arg) = 2
    /\ <<result.arg[1][1], result.arg[1][2]>> \in {<<"details", "created">>, <<"details", "modified">>}
    /\ Forbidden(result.arg[2])

\* C7: scandir yields one info record per child, page after page and in each
\* page's order, none twice and none left out, and asks for exactly the pages
\* the server has.
RECURSIVE Flatten(_)
Flatten(pages) == IF pages = <<>> THEN <<>> ELSE Head(pages) \o Flatten(Tail(pages))

ScanDirFollowsPages ==
    (result.op = "scandir" /\ result.status = "ok")
        => LET listed == Flatten(result.arg) IN
           /\ Len(result.data) = Len(listed)
           /\ \A i \in DOMAIN listed : result.data[i] = _itemInfo(listed[i])
           /\ Len(result.data) = Cardinality(Children(result.path))
           /\ \A i, j \in DOMAIN result.data : result.data[i].name = result.data[j].name => i = j
           /\ result.fetches = Len(result.arg)

\* two children came in three pages, one of them empty and not the last
ScanDirThroughEmptyPage ==
    /\ result.op = "scandir" /\ result.status = "ok"
    /\ Len(result.arg) = 3 /\ Len(result.data) = 2
    /\ result.arg[2] = <<>>

\* C8: openbin with an exclusive mode on a path that exists fails with
\* FileExists and returns no stream.
ExclusiveOnExistingIsFileExists ==
    (result.op = "openbin" /\ exclusive(result.mode) /\ result.pre # "absent")
        => (result.status = "FileExists" /\ result.sid = NoStream)

\* C9: for every stream, no upload happens before close() is called; once
\* close() has been called the upload has run exactly once, however often
\* close() is called; and a stream marked closed has uploaded and has no temp
\* file left.
UploadExactlyOnce ==
    \A s \in StreamIds :
        streams[s].opened
            => /\ ~streams[s].closeCalled => streams[s].uploadCalls = 0
               /\ streams[s].closeCalled => streams[s].uploadCalls = 1
               /\ streams[s].closed => ~tmp[streams[s].localPath].present

\* C10: of two streams that were open on one path at the same time, each
\* has a temp file and a descriptor of its own, a temp file holds the bytes
\* of its own stream and no others, a close that completes leaves the remote
\* content equal to the bytes of the stream it closes, and once both have
\* closed that content stays.
TwoTogether ==
    /\ {s \in StreamIds : streams[s].opened} = {1, 2}
    /\ streams[1].uploadPath = streams[2].uploadPath
    /\ 1 \in streams[2].peers

LastWriterWins ==
    [][TwoTogether'
       => /\ streams'[1].localPath # streams'[2].localPath
          /\ Live' = {1, 2} => streams'[1].fileHandle # streams'[2].fileHandle
          /\ \A s \in {1, 2} : tmp'[streams'[s].localPath].present
                                   => tmp'[streams'[s].localPath].data = streams'[s].written
          /\ \A s \in {1, 2} : (~streams[s].closed /\ streams'[s].closed)
                                   => /\ remote'[streams[s].uploadPath].kind = "file"
                                      /\ remote'[streams[s].uploadPath].content = streams'[s].written
          /\ (TwoTogether /\ streams[1].closed /\ streams[2].closed) => remote' = remote]_vars

\* both streams wrote and closed, and the content is that of the stream opened first
BothClosedFirstWins ==
    /\ TwoTogether
    /\ streams[1].closed /\ streams[2].closed
    /\ streams[1].written # <<>> /\ streams[2].written # <<>>
    /\ remote[streams[1].uploadPath].content = streams[1].written

====
